---- MODULE Spec2Model ----
(***************************************************************************)
(* Model of github.com/siderolabs/go-talos-support: the collector type     *)
(* (support/collectors/collectors.go), the bundle options and archive      *)
(* (support/bundle) and the worker pool of support.CreateSupportBundle.    *)
(*                                                                         *)
(* Strings that the code takes apart (paths, node names, source labels)    *)
(* are sequences of one-character strings; payloads and errors are atoms.  *)
(***************************************************************************)
EXTENDS Integers, Sequences, FiniteSets, TLC

\* ------------------------------------------------------------------ bounds
MaxTasks == 2
MaxWorkers == 2
MaxCompose == 1

\* ------------------------------------------------------------------ atoms
NIL == "nil"
Canceled == "context canceled"
DeadlineExceeded == "context deadline exceeded"
BodyErr == "collect failed"
WriteErr == "archive write failed"
CloseErr == "archive close failed"
Something == "something"
Another == "another"
Empty == ""

Sep == "/"
Dot == "."

\* const Cluster = "cluster"
Cluster == <<"c", "l", "u", "s", "t", "e", "r">>
N1 == <<"n", "1">>
G1 == <<"g">>

\* --------------------------------------------------------- path functions
RECURSIVE Split(_)
\* strings.Split(s, "/"): the segments between separators, empty ones kept.
Split(s) ==
  IF \A k \in 1..Len(s) : s[k] # Sep THEN <<s>>
  ELSE LET k == CHOOSE j \in 1..Len(s) : s[j] = Sep /\ \A m \in 1..(j-1) : s[m] # Sep
       IN <<SubSeq(s, 1, k-1)>> \o Split(SubSeq(s, k+1, Len(s)))

RECURSIVE JoinSegs(_)
\* strings.Join(segs, "/")
JoinSegs(segs) ==
  IF Len(segs) = 0 THEN <<>>
  ELSE IF Len(segs) = 1 THEN segs[1]
  ELSE segs[1] \o <<Sep>> \o JoinSegs(Tail(segs))

RECURSIVE CleanSegs(_, _, _)
\* The element loop of filepath.Clean: "" and "." are dropped, ".." removes
\* the element before it, is dropped at the root and kept otherwise.
CleanSegs(segs, out, rooted) ==
  IF Len(segs) = 0 THEN out
  ELSE LET e == Head(segs)
           rest == Tail(segs)
       IN IF e = <<>> \/ e = <<Dot>> THEN CleanSegs(rest, out, rooted)
          ELSE IF e = <<Dot, Dot>>
               THEN IF Len(out) > 0 /\ out[Len(out)] # <<Dot, Dot>>
                    THEN CleanSegs(rest, SubSeq(out, 1, Len(out)-1), rooted)
                    ELSE IF rooted THEN CleanSegs(rest, out, rooted)
                    ELSE CleanSegs(rest, Append(out, e), rooted)
          ELSE CleanSegs(rest, Append(out, e), rooted)

\* filepath.Clean (Unix)
Clean(p) ==
  IF Len(p) = 0 THEN <<Dot>>
  ELSE LET rooted == p[1] = Sep
           body == JoinSegs(CleanSegs(Split(p), <<>>, rooted))
       IN IF rooted THEN <<Sep>> \o body
          ELSE IF Len(body) = 0 THEN <<Dot>> ELSE body

\* filepath.Join(a, b): the first non-empty element on, joined and cleaned.
Join(a, b) ==
  IF Len(a) # 0 THEN Clean(a \o <<Sep>> \o b)
  ELSE IF Len(b) # 0 THEN Clean(b)
  ELSE <<>>

RECURSIVE StripTrailing(_)
StripTrailing(p) ==
  IF Len(p) > 0 /\ p[Len(p)] = Sep THEN StripTrailing(SubSeq(p, 1, Len(p)-1)) ELSE p

\* filepath.Base
Base(p) ==
  IF Len(p) = 0 THEN <<Dot>>
  ELSE LET s == StripTrailing(p)
           segs == Split(s)
           last == segs[Len(segs)]
       IN IF Len(s) = 0 THEN <<Sep>> ELSE last

\* ------------------------------------------------------------- collectors
\* NewCollector(path, c)
NewCollector(path, c) ==
  [collect |-> <<c>>, source |-> Cluster, destinationPath |-> path]

\* Collector.Source
Source(c) == c.source

\* Variant: the whole destination path in place of its last element.
StringFullPath(c) == <<"collect ">> \o c.destinationPath

\* Collector.String: fmt.Sprintf("collect %s", filepath.Base(c.destinationPath))
String(c) == <<"collect ">> \o Base(c.destinationPath)

\* The body of the loop of WithFolder, applied to one collector.
FolderOne(c, path) ==
  [c EXCEPT !.destinationPath = Join(path, c.destinationPath)]

\* Variant: the node becomes the source, the path is left alone.
NodeOneKeepPath(c, node) ==
  [c EXCEPT !.collect = Append(c.collect, node),
            !.source = node]

\* The body of the loop of WithNode, applied to one collector.
NodeOne(c, node) ==
  [c EXCEPT !.collect = Append(c.collect, node),
            !.source = node,
            !.destinationPath = Join(node, c.destinationPath)]

\* The body of the loop of WithSource, applied to one collector.
SourceOne(c, source) ==
  [c EXCEPT !.source = source]

\* ------------------------------------------------------------------ state
VARIABLES
  heap,            \* the Collector objects, by address
  made,            \* the path each collector was created with
  cols,            \* the cols ...*Collector argument: a sequence of addresses
  composed,        \* the With* calls made on collectors of the list, in order
  options,         \* the *bundle.Options value
  optionsAtCall,   \* its value when CreateSupportBundle was called
  consumer,        \* whether some goroutine receives from options.Progress
  ctxErr,          \* ctx.Err(): NIL until the context is cancelled or expires
  pc,              \* position of the goroutine that called CreateSupportBundle
  spawned,         \* the loop variable i of the eg.Go loop
  sent,            \* number of collectors handed over through the tasks channel
  totals,          \* the totals map
  collectProgress, \* the collectProgress flag
  wpc,             \* position of each worker goroutine
  wcol,            \* the collector a worker received (index into cols)
  werr,            \* the err a worker got from collector.Run
  wret,            \* the value a worker goroutine returned
  runs,            \* per task of cols: progress and outcome of its Run
  files,           \* the archive: path -> contents
  writes,          \* the Archive.Write calls, in the order the archive took them
  closes,          \* the value each Archive.Close call returned, in order
  progressCh,      \* buffer of the options.Progress channel
  emitted,         \* every Progress value the channel accepted, in order
  result           \* the value CreateSupportBundle returned

vars == <<heap, made, cols, composed, options, optionsAtCall, consumer, ctxErr, pc,
          spawned, sent, totals, collectProgress, wpc, wcol, werr, wret, runs,
          files, writes, closes, progressCh, emitted, result>>

Workers == 1..MaxWorkers

\* The collect functions.  A Collect is an arbitrary function; the ones
\* modelled are the constant functions of TestCollect and functions that can
\* fail or have nothing to report, as those of talos.go do.  Returns(f) is the
\* set of (data, err) pairs a call of f can return.
Returns(f) ==
  CASE f = "something" -> { [data |-> Something, err |-> NIL] }
    [] f = "another"   -> { [data |-> Another, err |-> NIL] }
    [] f = "flaky"     -> { [data |-> Something, err |-> NIL],
                            [data |-> NIL, err |-> NIL],
                            [data |-> NIL, err |-> BodyErr] }
    [] f = "sloppy"    -> { [data |-> Something, err |-> BodyErr],
                            [data |-> Empty, err |-> NIL] }

\* The paths collectors are created with.
P1 == <<"1">>
P2 == <<"2">>
A2 == <<"a", Sep, "2">>

\* A channel value is <<>> for a nil channel and <<capacity>> otherwise.
NilChan == <<>>
ProgressChans(n) == {NilChan, <<0>>, <<n>>}

\* The address of no collector: a nil *Collector.
NilCollector == 0

\* recv counts the receipts of the task from the channel, n the calls of Run.
NoRun == [st |-> "none", data |-> NIL, err |-> NIL, ret |-> NIL, recv |-> 0, n |-> 0]

\* ------------------------------------------------------ building the list
D1 == <<"d">>

\* The batches a With* function is called on: the slices cols[a:b].
Batches == { {cols[k] : k \in a..b} : a \in 1..Len(cols), b \in 1..Len(cols) } \ {{}}

\* WithFolder(collectors, path): every collector of the batch is changed
\* in place, and the same slice is returned.
WithFolder(batch, path) ==
  /\ pc = "build"
  /\ Len(composed) < MaxCompose
  /\ heap' = [c \in DOMAIN heap |-> IF c \in batch THEN FolderOne(heap[c], path) ELSE heap[c]]
  /\ composed' = Append(composed, [op |-> "WithFolder", batch |-> batch, arg |-> path])
  /\ UNCHANGED <<made, cols, options, optionsAtCall, consumer, ctxErr, pc, spawned,
                 sent, totals, collectProgress, wpc, wcol, werr, wret, runs, files,
                 writes, closes, progressCh, emitted, result>>

\* WithNode(collectors, node)
WithNode(batch, node) ==
  /\ pc = "build"
  /\ Len(composed) < MaxCompose
  /\ heap' = [c \in DOMAIN heap |-> IF c \in batch THEN NodeOne(heap[c], node) ELSE heap[c]]
  /\ composed' = Append(composed, [op |-> "WithNode", batch |-> batch, arg |-> node])
  /\ UNCHANGED <<made, cols, options, optionsAtCall, consumer, ctxErr, pc, spawned,
                 sent, totals, collectProgress, wpc, wcol, werr, wret, runs, files,
                 writes, closes, progressCh, emitted, result>>

\* WithSource(collectors, source)
WithSource(batch, source) ==
  /\ pc = "build"
  /\ Len(composed) < MaxCompose
  /\ heap' = [c \in DOMAIN heap |-> IF c \in batch THEN SourceOne(heap[c], source) ELSE heap[c]]
  /\ composed' = Append(composed, [op |-> "WithSource", batch |-> batch, arg |-> source])
  /\ UNCHANGED <<made, cols, options, optionsAtCall, consumer, ctxErr, pc, spawned,
                 sent, totals, collectProgress, wpc, wcol, werr, wret, runs, files,
                 writes, closes, progressCh, emitted, result>>

\* The caller hands the list to CreateSupportBundle.
Call ==
  /\ pc = "build"
  /\ pc' = "call"
  /\ UNCHANGED <<heap, made, cols, composed, options, optionsAtCall, consumer, ctxErr,
                 spawned, sent, totals, collectProgress, wpc, wcol, werr, wret, runs,
                 files, writes, closes, progressCh, emitted, result>>

\* ------------------------------------------------------- CreateSupportBundle
\* Variant: every source gets the length of the whole list.
calculateTotalsAll(hp, cs) ==
  [s \in {Source(hp[cs[k]]) : k \in 1..Len(cs)} |-> Len(cs)]

\* calculateTotals: the number of collectors of the list with each source.
calculateTotals(hp, cs) ==
  [s \in {Source(hp[cs[k]]) : k \in 1..Len(cs)} |->
     Cardinality({k \in 1..Len(cs) : Source(hp[cs[k]]) = s})]

\* Variant: the default is never applied.
NormalizeNever(n) == n

\* Variant: every count below 1 is replaced by 1.
NormalizeNonPositive(n) == IF n <= 0 THEN 1 ELSE n

\* if options.NumWorkers == 0 { options.NumWorkers = 1 }
NormalizeNumWorkers(n) == IF n = 0 THEN 1 ELSE n

\* Where the caller goes once the eg.Go loop is over: the send loop, or
\* close(tasks) when the list is empty.
AfterSpawn == IF Len(cols) > 0 THEN "send" ELSE "close"

\* Lines 168-178: the channel, the totals, the errgroup, collectProgress and
\* the NumWorkers default.  calculateTotals dereferences every collector, so
\* a nil collector in the list panics here.
Begin ==
  /\ pc = "call"
  /\ IF \E k \in 1..Len(cols) : cols[k] = NilCollector
     THEN /\ pc' = "panic"
          /\ UNCHANGED <<options, totals, collectProgress>>
     ELSE /\ totals' = calculateTotals(heap, cols)
          /\ collectProgress' = (options.Progress # NilChan)
          /\ options' = [options EXCEPT !.NumWorkers = NormalizeNumWorkers(@)]
          /\ pc' = IF 0 < options'.NumWorkers THEN "spawn" ELSE AfterSpawn
  /\ optionsAtCall' = options
  /\ UNCHANGED <<heap, made, cols, composed, consumer, ctxErr, spawned, sent, wpc, wcol,
                 werr, wret, runs, files, writes, closes, progressCh,
                 emitted, result>>

\* One iteration of the eg.Go loop: worker number spawned+1 starts and waits
\* in its select.
Spawn ==
  /\ pc = "spawn"
  /\ spawned < options.NumWorkers
  /\ spawned < MaxWorkers
  /\ wpc' = [wpc EXCEPT ![spawned + 1] = "select"]
  /\ spawned' = spawned + 1
  /\ pc' = IF spawned + 1 < options.NumWorkers THEN "spawn" ELSE AfterSpawn
  /\ UNCHANGED <<heap, made, cols, composed, options, optionsAtCall, consumer, ctxErr,
                 sent, totals, collectProgress, wcol, werr, wret, runs, files,
                 writes, closes, progressCh, emitted, result>>

\* Variant: the send loop offers the collector it handed over last.
NextColAgain == IF sent = 0 THEN 1 ELSE sent

\* Variant: the send loop goes through the list from its end.
NextColReversed == Len(cols) - sent

\* for _, col := range collectors: the collector the send loop is holding,
\* the one after those already handed over.
NextCol == sent + 1

\* tasks <- col meets case collector := <-tasks of worker w.  The channel is
\* unbuffered, so the send and the receive are one step.  The select takes
\* this case whenever it is ready, whether or not ctx.Done() is ready too.
Recv(w) ==
  /\ pc = "send"
  /\ wpc[w] = "select"
  /\ sent' = sent + 1
  /\ wcol' = [wcol EXCEPT ![w] = NextCol]
  /\ runs' = [runs EXCEPT ![NextCol].recv = @ + 1]
  /\ wpc' = [wpc EXCEPT ![w] = "run"]
  /\ pc' = IF sent + 1 < Len(cols) THEN "send" ELSE "close"
  /\ UNCHANGED <<heap, made, cols, composed, options, optionsAtCall, consumer, ctxErr,
                 spawned, totals, collectProgress, werr, wret, files,
                 writes, closes, progressCh, emitted, result>>

\* close(tasks)
CloseTasks ==
  /\ pc = "close"
  /\ pc' = "wait"
  /\ UNCHANGED <<heap, made, cols, composed, options, optionsAtCall, consumer, ctxErr,
                 spawned, sent, totals, collectProgress, wpc, wcol, werr, wret,
                 runs, files, writes, closes, progressCh, emitted, result>>

\* Variant: the channel is never closed.
tasksClosedNever == FALSE

tasksClosed == pc \in {"wait", "closing", "returned"}

\* case collector := <-tasks on the closed channel: collector == nil, return nil
RecvClosed(w) ==
  /\ tasksClosed
  /\ wpc[w] = "select"
  /\ wpc' = [wpc EXCEPT ![w] = "done"]
  /\ wret' = [wret EXCEPT ![w] = NIL]
  /\ UNCHANGED <<heap, made, cols, composed, options, optionsAtCall, consumer, ctxErr,
                 pc, spawned, sent, totals, collectProgress, wcol, werr, runs,
                 files, writes, closes, progressCh, emitted, result>>

\* case <-ctx.Done(): return ctx.Err()
CtxDone(w) ==
  /\ wpc[w] = "select"
  /\ ctxErr # NIL
  /\ wpc' = [wpc EXCEPT ![w] = "done"]
  /\ wret' = [wret EXCEPT ![w] = ctxErr]
  /\ UNCHANGED <<heap, made, cols, composed, options, optionsAtCall, consumer, ctxErr,
                 pc, spawned, sent, totals, collectProgress, wcol, werr, runs,
                 files, writes, closes, progressCh, emitted, result>>

\* Variant: a failed Run ends the worker with that error.
AfterRunEscalate(err) ==
  IF err # NIL THEN [pc |-> "done", ret |-> err]
  ELSE IF ~collectProgress THEN [pc |-> "select", ret |-> NIL]
  ELSE [pc |-> "progress", ret |-> NIL]

\* Lines 191-193: after Run, back to the select when progress is off, on to
\* the progress send otherwise.  The error of Run does not end the worker.
AfterRun(err) ==
  IF ~collectProgress THEN [pc |-> "select", ret |-> NIL]
  ELSE [pc |-> "progress", ret |-> NIL]

\* Variant: the map is made anew on every write.
ArchiveWriteFresh(fs, path, data) ==
  [q \in {path} |-> data]

\* Variant: a path that already has contents keeps them.
ArchiveWriteKeepFirst(fs, path, data) ==
  [q \in DOMAIN fs \cup {path} |-> IF q \in DOMAIN fs THEN fs[q] ELSE data]

\* testArchive.Write / archive.Write under its mutex: files[path] = data.
ArchiveWrite(fs, path, data) ==
  [q \in DOMAIN fs \cup {path} |-> IF q = path THEN data ELSE fs[q]]

\* The outcomes of one options.Archive.Write call.
WriteOutcomes == {NIL, WriteErr}

\* Variant: nil data is written too.
NeedsWriteNoNilCheck(out) == out.err = NIL

\* Variant: data is written whether or not there was an error.
NeedsWriteIgnoreErr(out) == out.data # NIL

\* Collector.Run, lines 51-58: the data goes to the archive when the collect
\* function gave no error and the data is not nil (an empty, non-nil slice
\* is written).
NeedsWrite(out) == out.err = NIL /\ out.data # NIL

\* err := collector.Run(ctx, options), lines 189-193.  The collect function
\* returns (data, err); an error or nil data ends Run without a write,
\* anything else goes to Archive.Write, whose error is the result of Run.
Run(w) ==
  /\ wpc[w] = "run"
  /\ LET k == wcol[w]
         c == heap[cols[k]]
     IN \E out \in Returns(c.collect[1]), e \in WriteOutcomes :
       IF ~NeedsWrite(out)
       THEN /\ e = NIL
            /\ werr' = [werr EXCEPT ![w] = IF collectProgress THEN out.err ELSE NIL]
            /\ runs' = [runs EXCEPT ![k] = [st |-> "done", data |-> out.data,
                                            err |-> out.err, ret |-> out.err,
                                            recv |-> @.recv, n |-> @.n + 1]]
            /\ wpc' = [wpc EXCEPT ![w] = AfterRun(out.err).pc]
            /\ wret' = [wret EXCEPT ![w] = AfterRun(out.err).ret]
            /\ UNCHANGED <<files, writes>>
       ELSE /\ writes' = Append(writes, [task |-> k, path |-> c.destinationPath,
                                         data |-> out.data, err |-> e])
            /\ files' = IF e = NIL THEN ArchiveWrite(files, c.destinationPath, out.data)
                        ELSE files
            /\ werr' = [werr EXCEPT ![w] = IF collectProgress THEN e ELSE NIL]
            /\ runs' = [runs EXCEPT ![k] = [st |-> "done", data |-> out.data,
                                            err |-> out.err, ret |-> e,
                                            recv |-> @.recv, n |-> @.n + 1]]
            /\ wpc' = [wpc EXCEPT ![w] = AfterRun(e).pc]
            /\ wret' = [wret EXCEPT ![w] = AfterRun(e).ret]
  /\ wcol' = IF ~collectProgress THEN [wcol EXCEPT ![w] = 0] ELSE wcol
  /\ UNCHANGED <<heap, made, cols, composed, options, optionsAtCall, consumer, ctxErr,
                 pc, spawned, sent, totals, collectProgress,
                 closes, progressCh, emitted, result>>

\* Lines 195-200: the bundle.Progress value for the collector of worker w.
ProgressOf(w) ==
  LET c == heap[cols[wcol[w]]] IN
  [Error |-> werr[w], Total |-> totals[Source(c)], Source |-> Source(c),
   State |-> String(c)]

\* A send on options.Progress can go through when the buffer has room or a
\* receiver is waiting.
CanSend ==
  \/ Len(progressCh) < options.Progress[1]
  \/ consumer /\ Len(progressCh) = 0

\* channel.SendWithContext(ctx, options.Progress, progress) returns true.
SendProgress(w) ==
  /\ wpc[w] = "progress"
  /\ CanSend
  /\ progressCh' = IF Len(progressCh) < options.Progress[1]
                   THEN Append(progressCh, ProgressOf(w)) ELSE progressCh
  /\ emitted' = Append(emitted, [task |-> wcol[w], ev |-> ProgressOf(w)])
  /\ wpc' = [wpc EXCEPT ![w] = "select"]
  /\ wcol' = [wcol EXCEPT ![w] = 0]
  /\ werr' = [werr EXCEPT ![w] = NIL]
  /\ UNCHANGED <<heap, made, cols, composed, options, optionsAtCall, consumer, ctxErr,
                 pc, spawned, sent, totals, collectProgress, wret,
                 runs, files, writes, closes, result>>

\* Variant: a delivery given up ends the worker with the error of the context.
AbandonProgressError(w) ==
  /\ wpc[w] = "progress"
  /\ ctxErr # NIL
  /\ wpc' = [wpc EXCEPT ![w] = "done"]
  /\ wret' = [wret EXCEPT ![w] = ctxErr]
  /\ UNCHANGED <<heap, made, cols, composed, options, optionsAtCall, consumer, ctxErr,
                 pc, spawned, sent, totals, collectProgress, wcol, werr, runs,
                 files, writes, closes, progressCh, emitted, result>>

\* channel.SendWithContext returns false (ctx.Done() won): return nil
AbandonProgress(w) ==
  /\ wpc[w] = "progress"
  /\ ctxErr # NIL
  /\ wpc' = [wpc EXCEPT ![w] = "done"]
  /\ wret' = [wret EXCEPT ![w] = NIL]
  /\ UNCHANGED <<heap, made, cols, composed, options, optionsAtCall, consumer, ctxErr,
                 pc, spawned, sent, totals, collectProgress, wcol, werr, runs,
                 files, writes, closes, progressCh, emitted, result>>

\* Variant: the wait is over as soon as one worker has returned.
SomeWorkerDone ==
  \/ \A w \in Workers : wpc[w] = "idle"
  \/ \E w \in Workers : wpc[w] = "done"

\* eg.Wait() returns once every goroutine started with eg.Go has returned.
AllWorkersDone == \A w \in Workers : wpc[w] \in {"idle", "done"}

\* The error of eg.Wait(): the first non-nil value a worker returned.
WaitErr ==
  IF \E w \in Workers : wpc[w] = "done" /\ wret[w] # NIL
  THEN wret[CHOOSE w \in Workers : wpc[w] = "done" /\ wret[w] # NIL]
  ELSE NIL

\* if err := eg.Wait(); err != nil { return err }
Wait ==
  /\ pc = "wait"
  /\ AllWorkersDone
  /\ IF WaitErr # NIL
     THEN /\ pc' = "returned"
          /\ result' = WaitErr
     ELSE /\ pc' = "closing"
          /\ UNCHANGED result
  /\ UNCHANGED <<heap, made, cols, composed, options, optionsAtCall, consumer, ctxErr,
                 spawned, sent, totals, collectProgress, wpc, wcol, werr, wret,
                 runs, files, writes, closes, progressCh, emitted>>

\* Variant: the error of Archive.Close is dropped.
ArchiveCloseSwallow ==
  /\ pc = "closing"
  /\ \E e \in {NIL, CloseErr} :
       /\ closes' = Append(closes, e)
       /\ result' = NIL
  /\ pc' = "returned"
  /\ UNCHANGED <<heap, made, cols, composed, options, optionsAtCall, consumer, ctxErr,
                 spawned, sent, totals, collectProgress, wpc, wcol, werr, wret,
                 runs, files, writes, progressCh, emitted>>

\* return options.Archive.Close()
ArchiveClose ==
  /\ pc = "closing"
  /\ \E e \in {NIL, CloseErr} :
       /\ closes' = Append(closes, e)
       /\ result' = e
  /\ pc' = "returned"
  /\ UNCHANGED <<heap, made, cols, composed, options, optionsAtCall, consumer, ctxErr,
                 spawned, sent, totals, collectProgress, wpc, wcol, werr, wret,
                 runs, files, writes, progressCh, emitted>>

\* ------------------------------------------------------------ environment
\* The caller cancels the context, or its deadline expires.
Cancel ==
  /\ pc \in {"call", "spawn", "send", "close", "wait"}
  /\ ctxErr = NIL
  /\ ctxErr' \in {Canceled, DeadlineExceeded}
  /\ UNCHANGED <<heap, made, cols, composed, options, optionsAtCall, consumer, pc,
                 spawned, sent, totals, collectProgress, wpc, wcol, werr, wret,
                 runs, files, writes, closes, progressCh, emitted, result>>

\* The receiver of the Progress channel takes the oldest buffered value.
Consume ==
  /\ consumer
  /\ Len(progressCh) > 0
  /\ progressCh' = Tail(progressCh)
  /\ UNCHANGED <<heap, made, cols, composed, options, optionsAtCall, consumer, ctxErr,
                 pc, spawned, sent, totals, collectProgress, wpc, wcol, werr,
                 wret, runs, files, writes, closes, emitted, result>>

\* ---------------------------------------------------------- specification
\* bundle.Options: the clients, the archive, the log output and the node
\* list are set by the caller and stand for themselves.
NewOptions(nw, ch) ==
  [TalosClient |-> "talos", KubernetesClient |-> "kubernetes",
   Archive |-> "archive", LogOutput |-> NIL, Progress |-> ch,
   Nodes |-> <<N1>>, NumWorkers |-> nw]

\* The state at the call of CreateSupportBundle(ctx, options, cols...) with
\* a list of at most MaxTasks collectors out of cs, NumWorkers out of nws
\* and, when withNil, possibly a nil collector in the list.  A non-nil
\* Progress channel has a receiver or not, as recv allows; a receiver is
\* free to receive late or never.
InitCall(cs, nws, withNil, recv) ==
  /\ \E n \in 0..MaxTasks :
       /\ heap \in [1..n -> cs]
       /\ made = [k \in 1..n |-> heap[k].destinationPath]
       /\ cols \in {[k \in 1..n |-> k]} \cup
                   (IF withNil /\ n > 0
                    THEN {[k \in 1..n |-> IF k = 1 THEN NilCollector ELSE k]} ELSE {})
       /\ runs = [k \in 1..n |-> NoRun]
       /\ \E nw \in nws, ch \in ProgressChans(n) :
            options = NewOptions(nw, ch)
  /\ optionsAtCall = options
  /\ composed = <<>>
  /\ consumer \in IF options.Progress = NilChan THEN {FALSE} ELSE recv
  /\ ctxErr = NIL
  /\ pc = "call"
  /\ spawned = 0
  /\ sent = 0
  /\ totals = <<>>
  /\ collectProgress = FALSE
  /\ wpc = [w \in Workers |-> "idle"]
  /\ wcol = [w \in Workers |-> 0]
  /\ werr = [w \in Workers |-> NIL]
  /\ wret = [w \in Workers |-> NIL]
  /\ files = <<>>
  /\ writes = <<>>
  /\ closes = <<>>
  /\ progressCh = <<>>
  /\ emitted = <<>>
  /\ result = NIL

\* Collectors whose collect function can fail.
FlakyCollectors == { NewCollector(P1, "flaky") }

Init == InitCall(FlakyCollectors, (-1)..MaxWorkers, TRUE, {TRUE})

Next ==
  \/ Begin
  \/ Spawn
  \/ \E w \in Workers : Recv(w)
  \/ CloseTasks
  \/ \E w \in Workers : RecvClosed(w)
  \/ \E w \in Workers : CtxDone(w)
  \/ \E w \in Workers : Run(w)
  \/ \E w \in Workers : SendProgress(w)
  \/ \E w \in Workers : AbandonProgress(w)
  \/ Wait
  \/ ArchiveClose
  \/ Cancel
  \/ Consume

Spec == Init /\ [][Next]_vars

\* Collectors as the tests build them: constant collect functions, two
\* payloads, two paths, and a source label set by WithSource.
DataCollectors ==
  { NewCollector(P1, "something"),
    NewCollector(P1, "another"),
    SourceOne(NewCollector(P2, "something"), G1) }

InitData == InitCall(DataCollectors, 1..MaxWorkers, FALSE, {TRUE})

\* The steps of a call whose context never ends (context.Background()).
NextData ==
  \/ Begin
  \/ Spawn
  \/ \E w \in Workers : Recv(w)
  \/ CloseTasks
  \/ \E w \in Workers : RecvClosed(w)
  \/ \E w \in Workers : Run(w)
  \/ \E w \in Workers : SendProgress(w)
  \/ Wait
  \/ ArchiveClose
  \/ Consume

DataSpec == InitData /\ [][NextData]_vars

\* Collectors whose collect function can fail, also while it returns data,
\* or return an empty payload; one of them at a nested path and with a
\* source label of its own.
RunCollectors ==
  { NewCollector(P1, "flaky"),
    SourceOne(NewCollector(A2, "sloppy"), G1) }

InitRun == InitCall(RunCollectors, 1..MaxWorkers, FALSE, {TRUE})

RunSpec == InitRun /\ [][NextData]_vars

\* A caller that creates its collectors with NewCollector, wraps batches of
\* them with the With* functions and then calls CreateSupportBundle with
\* two workers, a Progress channel that has room for every value and a
\* context that never ends.
BuildCollector(k) ==
  IF k % 2 = 1 THEN NewCollector(P1, "something") ELSE NewCollector(P1, "another")

InitBuild ==
  /\ \E n \in 1..MaxTasks :
       /\ heap = [k \in 1..n |-> BuildCollector(k)]
       /\ made = [k \in 1..n |-> heap[k].destinationPath]
       /\ cols = [k \in 1..n |-> k]
       /\ runs = [k \in 1..n |-> NoRun]
       /\ options = NewOptions(2, <<n>>)
  /\ optionsAtCall = options
  /\ composed = <<>>
  /\ consumer = FALSE
  /\ ctxErr = NIL
  /\ pc = "build"
  /\ spawned = 0
  /\ sent = 0
  /\ totals = <<>>
  /\ collectProgress = FALSE
  /\ wpc = [w \in Workers |-> "idle"]
  /\ wcol = [w \in Workers |-> 0]
  /\ werr = [w \in Workers |-> NIL]
  /\ wret = [w \in Workers |-> NIL]
  /\ files = <<>>
  /\ writes = <<>>
  /\ closes = <<>>
  /\ progressCh = <<>>
  /\ emitted = <<>>
  /\ result = NIL

NextBuild ==
  \/ \E b \in Batches : WithFolder(b, D1)
  \/ \E b \in Batches : WithNode(b, N1)
  \/ \E b \in Batches : WithSource(b, G1)
  \/ Call
  \/ Begin
  \/ Spawn
  \/ \E w \in Workers : Recv(w)
  \/ CloseTasks
  \/ \E w \in Workers : RecvClosed(w)
  \/ \E w \in Workers : Run(w)
  \/ \E w \in Workers : SendProgress(w)
  \/ Wait
  \/ ArchiveClose

BuildSpec == InitBuild /\ [][NextBuild]_vars

\* The scheduler runs every goroutine that can take a step, and a select
\* with a ready case takes one; a receiver of the Progress channel, when
\* there is one, keeps receiving.  Nothing obliges the context to end.
Fairness ==
  /\ WF_vars(Begin)
  /\ WF_vars(Spawn)
  /\ WF_vars(CloseTasks)
  /\ WF_vars(Wait)
  /\ WF_vars(ArchiveClose)
  /\ WF_vars(Consume)
  /\ \A w \in Workers :
       /\ WF_vars(Recv(w) \/ RecvClosed(w) \/ CtxDone(w))
       /\ WF_vars(Run(w))
       /\ WF_vars(SendProgress(w) \/ AbandonProgress(w))

\* Under fairness it matters whether the Progress channel has a receiver.
FairInit == InitCall(FlakyCollectors, (-1)..MaxWorkers, TRUE, BOOLEAN)

FairSpec == FairInit /\ [][Next]_vars /\ Fairness

\* Calls with progress in view: one collect function that always gives a
\* payload, a Progress channel with or without a receiver, a context that
\* may end at any moment.  Of the scheduler only this is assumed: a worker
\* in channel.SendWithContext is not starved while one of the two cases of
\* its select stays ready.
DeliveryCollectors == { NewCollector(P1, "something") }

InitDelivery == InitCall(DeliveryCollectors, 1..2, FALSE, BOOLEAN)

DeliveryFairness ==
  \A w \in Workers : WF_vars(SendProgress(w) \/ AbandonProgress(w))

DeliverySpec == InitDelivery /\ [][Next]_vars /\ DeliveryFairness

\* Calls whose context never ends, with any NumWorkers and with a Progress
\* channel that has a receiver or not, under the fair scheduling of every
\* goroutine.
InitLive == InitCall(FlakyCollectors, (-1)..MaxWorkers, FALSE, BOOLEAN)

LiveSpec == InitLive /\ [][NextData]_vars /\ Fairness

\* Calls with the handoff in view: any NumWorkers, a context that may end
\* at any moment, and a collect function that always gives a payload.
InitHandoff == InitCall(DeliveryCollectors, (-1)..MaxWorkers, FALSE, {TRUE})

HandoffSpec == InitHandoff /\ [][Next]_vars

TypeOK ==
  /\ pc \in {"build", "call", "spawn", "send", "close", "wait", "closing", "returned", "panic"}
  /\ sent \in 0..Len(cols)
  /\ spawned \in 0..MaxWorkers
  /\ Len(closes) \in 0..1

\* ------------------------------------------------------------ vocabulary
Returned == pc = "returned"
NumTasks == Len(cols)
Started(w) == wpc[w] # "idle"
WasRun(k) == runs[k].st = "done"
AllRun == \A k \in 1..NumTasks : WasRun(k)
NoWorkerError == \A w \in Workers : wret[w] = NIL
TaskErrors == {BodyErr, WriteErr}

\* ------------------------------------------------------------------ claims

\* C1: once the context has ended while some task of a list of non-nil
\* collectors has not yet been received by a worker (NumWorkers >= 1), the
\* call eventually returns, with the error of the context, with Archive.Close
\* never called and with at least one task never run.
C1_CancelledBeforeAllReceived ==
  /\ ctxErr # NIL
  /\ optionsAtCall.NumWorkers >= 1
  /\ \A k \in 1..NumTasks : cols[k] # NilCollector
  /\ pc \in {"call", "spawn", "send"}
  /\ sent < NumTasks

C1_ReturnedContextError ==
  /\ Returned
  /\ result = ctxErr
  /\ closes = <<>>
  /\ \E k \in 1..NumTasks : runs[k].st = "none"

C1_CancellationReturns == C1_CancelledBeforeAllReceived ~> C1_ReturnedContextError

\* C2: the error of a task (of its collect function or of Archive.Write)
\* never becomes the result of CreateSupportBundle nor of a worker.  When the
\* call has returned, the context was never cancelled and Archive.Close
\* returned nil, the result is nil, every task of the list was run, and with
\* options.Progress nil no Progress value was emitted.
C2_TaskErrorsNotEscalated ==
  /\ result \notin TaskErrors
  /\ \A w \in Workers : wret[w] \notin TaskErrors
  /\ (Returned /\ ctxErr = NIL) =>
       /\ Len(closes) = 1
       /\ closes[1] = NIL => result = NIL
       /\ AllRun
  /\ optionsAtCall.Progress = NilChan => emitted = <<>>

C2_Witness ==
  /\ Returned /\ ctxErr = NIL /\ closes = <<NIL>> /\ result = NIL
  /\ optionsAtCall.Progress = NilChan
  /\ NumTasks = 2
  /\ runs[1].ret = BodyErr
  /\ runs[2].ret = WriteErr

\* C5: Archive.Close is called at most once, and only when every worker has
\* returned, each with nil (so no Run, hence no Archive.Write, is under way or
\* can start).  When CreateSupportBundle has returned, Close was called
\* exactly once if no worker returned an error and not at all otherwise.
C5_CloseOnceAfterWorkers ==
  /\ Len(closes) <= 1
  /\ Len(closes) = 1 => NoWorkerError /\ pc = "returned"
  /\ (\E w \in Workers : wret[w] # NIL) => closes = <<>>
  /\ Returned => (Len(closes) = 1 <=> NoWorkerError)
  /\ Returned => \A w \in Workers : wpc[w] \in {"idle", "done"}

C5_Witness ==
  /\ Returned /\ Len(closes) = 1
  /\ spawned = 2 /\ NumTasks = 2
  /\ Len(writes) = 2

\* C6: the result of a returned call is the error of the context when some
\* worker returned it, and otherwise exactly what Archive.Close returned
\* (nil or its error); there is no other result.
C6_ResultValues ==
  Returned =>
    /\ result \in {NIL, CloseErr, ctxErr}
    /\ IF NoWorkerError
       THEN Len(closes) = 1 /\ result = closes[1]
       ELSE ctxErr # NIL /\ result = ctxErr

C6_Witness ==
  /\ Returned /\ closes = <<CloseErr>> /\ result = CloseErr
  /\ NumTasks > 0 /\ AllRun

\* With one worker, tasks are run and their results reported in list order.
InListOrder ==
  /\ \A a, b \in 1..Len(writes) : a < b => writes[a].task < writes[b].task
  /\ \A a, b \in 1..Len(emitted) : a < b => emitted[a].task < emitted[b].task
  /\ \A k \in 2..NumTasks : runs[k].st # "none" => WasRun(k - 1)

\* C7: a call with NumWorkers = 0 goes on exactly as a call with
\* NumWorkers = 1: after the default is applied options.NumWorkers is 1, one
\* worker and no more is started, and the tasks are run one after the other
\* in list order.
C7_ZeroIsOne ==
  (optionsAtCall.NumWorkers \in {0, 1} /\ pc \notin {"build", "call", "panic"}) =>
    /\ options.NumWorkers = 1
    /\ Cardinality({w \in Workers : Started(w)}) = spawned
    /\ spawned = IF pc = "spawn" THEN 0 ELSE 1
    /\ InListOrder

C7_Witness ==
  /\ optionsAtCall.NumWorkers = 0 /\ Returned /\ result = NIL
  /\ NumTasks = 2 /\ AllRun /\ Len(writes) = 2 /\ Len(emitted) = 2

\* C8 as stated: a negative NumWorkers is replaced by 1, so one worker has
\* been started once the eg.Go loop is over.
C8_NegativeIsOne_Original ==
  (optionsAtCall.NumWorkers < 0 /\ pc \in {"send", "close", "wait", "closing", "returned"}) =>
    /\ options.NumWorkers = 1
    /\ spawned = 1

\* C8 as amended: only NumWorkers = 0 is replaced by 1.  A negative
\* NumWorkers is kept: no worker is started, and with a non-empty list the
\* caller stays in its first send, no task is run and the call never returns.
C8_OnlyZeroIsDefaulted ==
  /\ (optionsAtCall.NumWorkers = 0 /\ pc \in {"send", "close", "wait", "closing", "returned"}) =>
       options.NumWorkers = 1 /\ spawned = 1
  /\ (optionsAtCall.NumWorkers < 0 /\ pc \notin {"build", "call", "panic"}) =>
       /\ options.NumWorkers = optionsAtCall.NumWorkers
       /\ spawned = 0
       /\ \A w \in Workers : ~Started(w)
       /\ NumTasks > 0 => pc = "send" /\ sent = 0 /\ \A k \in 1..NumTasks : runs[k].st = "none"

C8_Witness ==
  /\ optionsAtCall.NumWorkers < 0 /\ pc = "send" /\ NumTasks = 2 /\ ctxErr # NIL

\* ------------------------------------------------------- claims on data
PathOf(k) == heap[cols[k]].destinationPath
SourceOf(k) == Source(heap[cols[k]])
Tasks == 1..NumTasks
DistinctPaths == \A j, k \in Tasks : j # k => PathOf(j) # PathOf(k)
\* The collect function of task k returned a payload and no error.
GavePayload(k) == WasRun(k) /\ runs[k].err = NIL /\ runs[k].data # NIL
\* The Archive.Write calls that stored something at path p.
StoredAt(p) == {a \in 1..Len(writes) : writes[a].path = p /\ writes[a].err = NIL}
LastStoredAt(p) == CHOOSE a \in StoredAt(p) : \A b \in StoredAt(p) : b <= a

\* C3: when a call whose context never ended has returned, the paths of the
\* list are pairwise distinct and every Run returned nil after its collect
\* function gave a non-empty payload, the archive holds one entry per task,
\* at the path of the task and with its payload, and nothing else.
C3_OneEntryPerTask ==
  ( /\ Returned /\ ctxErr = NIL
    /\ DistinctPaths
    /\ \A k \in Tasks : GavePayload(k) /\ runs[k].data # Empty /\ runs[k].ret = NIL ) =>
    /\ DOMAIN files = {PathOf(k) : k \in Tasks}
    /\ Cardinality(DOMAIN files) = NumTasks
    /\ \A k \in Tasks : files[PathOf(k)] = runs[k].data

C3_Witness ==
  /\ Returned /\ ctxErr = NIL /\ NumTasks = 2 /\ spawned = 2
  /\ PathOf(1) = P1 /\ PathOf(2) = P2
  /\ \A k \in Tasks : runs[k].ret = NIL
  /\ files[P1] = Another /\ files[P2] = Something
  /\ writes[1].task = 2

\* C4: when a call with a Progress channel whose context never ended has
\* returned, one Progress value per task has been emitted; the Total of
\* each is the number of collectors of the list with its Source, and each
\* source is the Source of as many values as it has collectors.
C4_ProgressTotals ==
  (Returned /\ ctxErr = NIL /\ optionsAtCall.Progress # NilChan) =>
    /\ Len(emitted) = NumTasks
    /\ \A k \in Tasks : Cardinality({a \in 1..Len(emitted) : emitted[a].task = k}) = 1
    /\ \A a \in 1..Len(emitted) :
         /\ emitted[a].ev.Source = SourceOf(emitted[a].task)
         /\ emitted[a].ev.Total =
              Cardinality({k \in Tasks : SourceOf(k) = emitted[a].ev.Source})
    /\ \A k \in Tasks :
         Cardinality({a \in 1..Len(emitted) : emitted[a].ev.Source = SourceOf(k)})
           = Cardinality({j \in Tasks : SourceOf(j) = SourceOf(k)})

C4_Witness ==
  /\ Returned /\ ctxErr = NIL /\ NumTasks = 2 /\ spawned = 2
  /\ optionsAtCall.Progress = <<2>>
  /\ Len(emitted) = 2 /\ Len(progressCh) = 2
  /\ emitted[1].ev.Source = G1 /\ emitted[1].ev.Total = 1
  /\ emitted[2].ev.Source = Cluster /\ emitted[2].ev.Total = 1

\* C10: paths are not deduplicated.  Every task whose collect function gave
\* a payload makes one Archive.Write call of its own, whatever the paths of
\* the other tasks; the entry at a path is the data of the last write the
\* archive stored there, and so it is that payload whenever all the tasks
\* of the path gave the same payload.
C10_NoDeduplication ==
  /\ \A k \in Tasks :
       Cardinality({a \in 1..Len(writes) : writes[a].task = k})
         = IF GavePayload(k) THEN 1 ELSE 0
  /\ \A a \in 1..Len(writes) :
       writes[a].path = PathOf(writes[a].task) /\ writes[a].data = runs[writes[a].task].data
  /\ DOMAIN files = {writes[a].path : a \in {b \in 1..Len(writes) : writes[b].err = NIL}}
  /\ \A p \in DOMAIN files : files[p] = writes[LastStoredAt(p)].data
  /\ Returned =>
       \A p \in DOMAIN files, d \in {Something, Another, Empty} :
         (\A k \in Tasks : PathOf(k) = p /\ GavePayload(k) => runs[k].data = d) => files[p] = d

C10_Witness ==
  /\ Returned /\ ctxErr = NIL /\ NumTasks = 2 /\ spawned = 2
  /\ PathOf(1) = P1 /\ PathOf(2) = P1
  /\ runs[1].data = Something /\ runs[2].data = Another
  /\ Len(writes) = 2 /\ writes[1].err = NIL /\ writes[2].err = NIL
  /\ writes[1].task = 2 /\ writes[2].task = 1
  /\ files[P1] = Something

\* ------------------------------------------------ claims on composition
\* The With* calls whose batch holds collector c, in the order made.
CallsOn(c) == SelectSeq(composed, LAMBDA r : c \in r.batch)

RECURSIVE PrefixedPath(_, _)
\* The path p with the argument of every WithFolder and WithNode call put
\* in front of it, a separator in between.
PrefixedPath(calls, p) ==
  IF Len(calls) = 0 THEN p
  ELSE LET r == Head(calls)
           q == IF r.op \in {"WithFolder", "WithNode"} THEN r.arg \o <<Sep>> \o p ELSE p
       IN PrefixedPath(Tail(calls), q)

RECURSIVE LabelAfter(_, _)
\* The source after the calls: the argument of the last WithNode or
\* WithSource call, s when there is none.
LabelAfter(calls, s) ==
  IF Len(calls) = 0 THEN s
  ELSE LET r == Head(calls)
       IN LabelAfter(Tail(calls), IF r.op \in {"WithNode", "WithSource"} THEN r.arg ELSE s)

N1P1 == <<"n", "1", "/", "1">>

\* C9: WithNode(batch, node) makes node the source of every collector of
\* the batch and puts node and a separator in front of its path; collectors
\* outside the batch keep theirs.  After a run whose context never ended, a
\* payload that was stored is found at the prefixed path of its task and
\* nowhere else, and the Progress value of the task has the node as Source
\* and the number of collectors with that source as Total.
C9_WithNodeScopes ==
  /\ \A c \in DOMAIN heap :
       /\ heap[c].destinationPath = PrefixedPath(CallsOn(c), made[c])
       /\ heap[c].source = LabelAfter(CallsOn(c), Cluster)
  /\ \A a \in 1..Len(writes) :
       writes[a].path = PrefixedPath(CallsOn(cols[writes[a].task]), made[cols[writes[a].task]])
  /\ DOMAIN files \subseteq {PrefixedPath(CallsOn(cols[k]), made[cols[k]]) : k \in Tasks}
  /\ \A a \in 1..Len(emitted) :
       LET k == emitted[a].task
           l == LabelAfter(CallsOn(cols[k]), Cluster)
       IN /\ emitted[a].ev.Source = l
          /\ emitted[a].ev.Total =
               Cardinality({j \in Tasks : LabelAfter(CallsOn(cols[j]), Cluster) = l})
  /\ Returned =>
       \A k \in Tasks :
         (GavePayload(k) /\ runs[k].ret = NIL) =>
           LET q == PrefixedPath(CallsOn(cols[k]), made[cols[k]])
           IN /\ q \in DOMAIN files
              /\ writes[LastStoredAt(q)].task = k => files[q] = runs[k].data

C9_Witness ==
  /\ Returned /\ NumTasks = 2
  /\ composed = <<[op |-> "WithNode", batch |-> {2}, arg |-> N1]>>
  /\ made[2] = P1
  /\ DOMAIN files = {P1, N1P1}
  /\ files[P1] = Something
  /\ files[N1P1] = Another
  /\ \E a \in 1..Len(emitted) :
       emitted[a].task = 2 /\ emitted[a].ev.Source = N1 /\ emitted[a].ev.Total = 1

\* The Archive.Write calls and the progress values of task k.
WritesOf(k) == {a \in 1..Len(writes) : writes[a].task = k}
EventsOf(k) == {a \in 1..Len(emitted) : emitted[a].task = k}
\* The collect function of task k returned neither a payload nor an error.
Vacuous(k) == WasRun(k) /\ runs[k].data = NIL /\ runs[k].err = NIL

\* C11, as stated: a task whose collect function returned (nil, nil) has no
\* Archive.Write call and a nil result of Run, and once a call with progress
\* enabled has returned, exactly one progress value was emitted for it, with
\* a nil Error.
C11_VacuousExactlyOneEvent_Original ==
  \A k \in Tasks :
    (Returned /\ Vacuous(k)) =>
      /\ WritesOf(k) = {}
      /\ runs[k].ret = NIL
      /\ collectProgress =>
           /\ Cardinality(EventsOf(k)) = 1
           /\ \A a \in EventsOf(k) : emitted[a].ev.Error = NIL

\* C11, amended: a task whose collect function returned (nil, nil) has no
\* Archive.Write call, the archive holds only what a successful write put
\* there, Run returned nil, at most one progress value is emitted for the
\* task, with a nil Error and only with progress enabled, and exactly one
\* once a call with progress enabled has returned with the context never
\* ended.
C11_VacuousTask ==
  /\ \A p \in DOMAIN files : StoredAt(p) # {}
  /\ \A k \in Tasks :
       Vacuous(k) =>
         /\ WritesOf(k) = {}
         /\ runs[k].ret = NIL
         /\ Cardinality(EventsOf(k)) <= 1
         /\ \A a \in EventsOf(k) : emitted[a].ev.Error = NIL
         /\ ~collectProgress => EventsOf(k) = {}
         /\ (Returned /\ collectProgress /\ ctxErr = NIL) =>
              Cardinality(EventsOf(k)) = 1

C11_Witness ==
  /\ Returned /\ collectProgress /\ ctxErr = NIL
  /\ NumTasks = 2
  /\ Vacuous(1) /\ GavePayload(2)
  /\ Cardinality(EventsOf(1)) = 1
  /\ \A a \in EventsOf(1) : emitted[a].ev.Error = NIL
  /\ WritesOf(1) = {}
  /\ Cardinality(WritesOf(2)) = 1

\* C12: Run returns the error of the collect function and makes no
\* Archive.Write call whenever that function returned an error, with or
\* without data; otherwise, when it returned data, Run makes exactly one
\* Archive.Write call, with that data and at the destination path of the
\* collector, and returns what that call returned; before Run there is no
\* write for the task.
C12_RunResult ==
  \A k \in Tasks :
    /\ ~WasRun(k) => WritesOf(k) = {}
    /\ (WasRun(k) /\ runs[k].err # NIL) =>
         /\ runs[k].ret = runs[k].err
         /\ WritesOf(k) = {}
    /\ (WasRun(k) /\ runs[k].err = NIL /\ runs[k].data # NIL) =>
         /\ Cardinality(WritesOf(k)) = 1
         /\ \A a \in WritesOf(k) :
              /\ writes[a].path = PathOf(k)
              /\ writes[a].data = runs[k].data
              /\ runs[k].ret = writes[a].err
              /\ writes[a].err = NIL => PathOf(k) \in DOMAIN files

C12_Witness ==
  /\ NumTasks = 2
  /\ WasRun(1) /\ runs[1].data = Something /\ runs[1].err = BodyErr
  /\ runs[1].ret = BodyErr /\ WritesOf(1) = {}
  /\ WasRun(2) /\ runs[2].data = Empty /\ runs[2].err = NIL
  /\ runs[2].ret = WriteErr
  /\ writes = <<[task |-> 2, path |-> A2, data |-> Empty, err |-> WriteErr]>>

\* Worker w has returned while it still held a collector: it gave up the
\* delivery of that collector's progress value.
Abandoned(w) == wpc[w] = "done" /\ wcol[w] # 0
\* Worker w is in the delivery of a progress value that the channel does
\* not take.
BlockedInDelivery(w) == wpc[w] = "progress" /\ ~CanSend

\* C13: a worker that has given up a delivery did so with the context
\* ended and has returned nil; a call that returned an error of the context
\* got it from a worker that did not give up a delivery; a worker blocked in
\* a delivery with the context ended eventually leaves the delivery, and
\* when the channel has no receiver it leaves it by giving up and returning
\* nil.
C13_BlockedDeliveryAbandoned ==
  /\ [](\A w \in Workers : Abandoned(w) => (wret[w] = NIL /\ ctxErr # NIL))
  /\ []((Returned /\ result \in {Canceled, DeadlineExceeded}) =>
          \E w \in Workers : wret[w] = result /\ ~Abandoned(w))
  /\ \A w \in Workers :
       /\ (BlockedInDelivery(w) /\ ctxErr # NIL) ~> (wpc[w] # "progress")
       /\ (BlockedInDelivery(w) /\ ctxErr # NIL /\ ~consumer) ~>
            (Abandoned(w) /\ wret[w] = NIL)

C13_Witness ==
  /\ Returned /\ result = NIL
  /\ ~consumer /\ options.Progress = <<0>>
  /\ ctxErr # NIL
  /\ Abandoned(1) /\ wret[1] = NIL
  /\ emitted = <<>>

\* C14, as stated: a call with an empty list that has returned has run no
\* task, emitted no progress value, called Archive.Close exactly once and
\* returned what Close returned, whatever NumWorkers is and whether or not
\* the context has ended.
C14_EmptyListClosesOnce_Original ==
  (NumTasks = 0 /\ Returned) =>
    /\ writes = <<>> /\ emitted = <<>>
    /\ Len(closes) = 1
    /\ result = closes[1]

\* C14, amended: a call with an empty list runs no task, emits no progress
\* value, never waits in the send loop and calls Archive.Close at most once,
\* whatever NumWorkers is; when it has returned, either no worker returned
\* an error, Close was called exactly once and its result is the result of
\* the call, or the context has ended, a worker returned its error, that
\* error is the result of the call and Close was not called; a worker
\* returns an error only when the context has ended.
C14_EmptyList ==
  NumTasks = 0 =>
    /\ writes = <<>> /\ emitted = <<>> /\ DOMAIN files = {}
    /\ pc \notin {"send", "panic"}
    /\ Len(closes) <= 1
    /\ ctxErr = NIL => NoWorkerError
    /\ Returned =>
         IF NoWorkerError
         THEN Len(closes) = 1 /\ result = closes[1]
         ELSE ctxErr # NIL /\ result = ctxErr /\ closes = <<>>

C14_Witness ==
  /\ NumTasks = 0 /\ Returned
  /\ optionsAtCall.NumWorkers = 2 /\ spawned = 2
  /\ ctxErr # NIL
  /\ closes = <<CloseErr>> /\ result = CloseErr

\* C15: from the call on, every field of the Options value the caller
\* passed (NumWorkers, Progress, Archive, Nodes, LogOutput and the clients)
\* has the value it had at the call.
C15_OptionsUnchanged ==
  pc \notin {"build", "call"} =>
    \A f \in DOMAIN optionsAtCall : options[f] = optionsAtCall[f]

\* Progress is off, or the Progress channel has a receiver, or it has room
\* for the value of every task.
EveryEventAccepted ==
  \/ options.Progress = NilChan
  \/ consumer
  \/ options.Progress[1] >= NumTasks

\* C16: with a context that never ends and fair scheduling, a call with
\* NumWorkers >= 0 whose progress values are all accepted eventually
\* returns, and it has returned only with every task of the list run and
\* Archive.Close called.
C16_Terminates ==
  /\ (pc = "call" /\ options.NumWorkers >= 0 /\ EveryEventAccepted)
        ~> (Returned /\ AllRun /\ Len(closes) = 1)
  /\ [](Returned => (AllRun /\ Len(closes) = 1 /\ sent = NumTasks))

C16_Witness ==
  /\ Returned /\ AllRun /\ Len(closes) = 1
  /\ NumTasks = 2
  /\ optionsAtCall.NumWorkers = 0
  /\ options.Progress = <<0>> /\ consumer
  /\ Len(emitted) = 2

\* The tasks a worker has received and not finished: Run has not returned,
\* or the worker is still in the delivery of the progress value.
InFlight ==
  {k \in Tasks :
     /\ runs[k].recv > 0
     /\ \/ ~WasRun(k)
        \/ \E w \in Workers : wcol[w] = k /\ wpc[w] = "progress"}
StartedWorkers == {w \in Workers : Started(w)}
\* The workers that are neither waiting in the select nor gone.
BusyWorkers == {w \in Workers : wpc[w] \in {"run", "progress"}}

\* C17: the workers started are as many as the loop has gone round, never
\* more than NumWorkers (1 for 0), and once the loop is over exactly
\* NumWorkers (1 for 0; none for a negative count); the tasks received and
\* not finished are never more than the workers started, each is held by a
\* busy worker, and the tasks handed over are those in flight and those
\* finished.
C17_WorkersAndAdmission ==
  LET n == optionsAtCall.NumWorkers
      want == IF n = 0 THEN 1 ELSE IF n < 0 THEN 0 ELSE n
  IN /\ Cardinality(StartedWorkers) = spawned
     /\ spawned <= want
     /\ pc \in {"send", "close", "wait", "closing", "returned"} => spawned = want
     /\ Cardinality(InFlight) <= spawned
     /\ Cardinality(InFlight) = Cardinality(BusyWorkers)
     /\ sent = Cardinality({k \in Tasks : runs[k].recv > 0})
     /\ sent <= Cardinality({k \in Tasks : WasRun(k)}) + spawned

C17_Witness ==
  /\ optionsAtCall.NumWorkers = 0 /\ spawned = 1
  /\ NumTasks = 2
  /\ pc = "send" /\ sent = 1
  /\ InFlight = {1}
  /\ wpc[1] = "progress"

\* The workers that hold task k.
HoldersOf(k) == {w \in Workers : wcol[w] = k}

\* C18: every task of the list has been received at most once, is held by
\* at most one worker, has had Run called at most once and only after it
\* was received, and has at most one Archive.Write call and at most one
\* progress value.
C18_AtMostOnce ==
  \A k \in Tasks :
    /\ runs[k].recv <= 1
    /\ runs[k].n <= runs[k].recv
    /\ WasRun(k) <=> runs[k].n = 1
    /\ Cardinality(HoldersOf(k)) <= 1
    /\ HoldersOf(k) # {} => runs[k].recv = 1
    /\ Cardinality(WritesOf(k)) <= 1
    /\ Cardinality(EventsOf(k)) <= 1

C18_Witness ==
  /\ NumTasks = 2 /\ spawned = 2
  /\ HoldersOf(1) = {2} /\ HoldersOf(2) = {1}
  /\ wpc[1] = "progress" /\ wpc[2] = "progress"
  /\ runs[1].n = 1 /\ runs[2].n = 1
  /\ runs[1].recv = 1 /\ runs[2].recv = 1

\* The tasks some worker has received.
Received == {k \in Tasks : runs[k].recv > 0}

\* C19: the tasks received so far are an initial piece of the list, so no
\* task is received before the one in front of it, and the tasks channel is
\* closed only with every task of the list received.
C19_ListOrder ==
  /\ Received = 1..sent
  /\ \A k \in Tasks : (k > 1 /\ k \in Received) => (k - 1) \in Received
  /\ tasksClosed => Received = Tasks

C19_Witness ==
  /\ NumTasks = 2 /\ spawned = 2
  /\ Received = {1} /\ WasRun(1)
  /\ wpc[1] = "select" /\ wpc[2] = "select"
  /\ ~tasksClosed

\* What follows the last separator of the path p; p itself without one.
LastSegment(p) ==
  LET seps == {i \in 1..Len(p) : p[i] = Sep}
      from == IF seps = {} THEN 1
              ELSE (CHOOSE i \in seps : \A j \in seps : j <= i) + 1
  IN SubSeq(p, from, Len(p))

\* C20: progress values are emitted only with progress enabled, at most one
\* per task, only for a task whose Run has returned, with the source label
\* of the task as Source, "collect " and the last segment of its
\* destination path as State, and as Error what Run returned: the error of
\* the collect function, the error of the write, or nil.
C20_ProgressFields ==
  /\ ~collectProgress => emitted = <<>>
  /\ \A k \in Tasks : Cardinality(EventsOf(k)) <= 1
  /\ \A a \in 1..Len(emitted) :
       LET k == emitted[a].task
           ev == emitted[a].ev
       IN /\ k \in Tasks
          /\ WasRun(k)
          /\ ev.Source = SourceOf(k)
          /\ ev.State = <<"collect ">> \o LastSegment(PathOf(k))
          /\ ev.Error = runs[k].ret
          /\ ev.Error = IF runs[k].err # NIL THEN runs[k].err
                        ELSE IF runs[k].data = NIL THEN NIL
                        ELSE writes[CHOOSE b \in WritesOf(k) : TRUE].err

C20_Witness ==
  /\ NumTasks = 2
  /\ PathOf(1) = A2 /\ PathOf(2) = A2
  /\ \E a, b \in 1..Len(emitted) :
       /\ emitted[a].task = 1
       /\ emitted[a].ev.Source = G1
       /\ emitted[a].ev.State = <<"collect ", "2">>
       /\ emitted[a].ev.Error = BodyErr
       /\ emitted[b].task = 2
       /\ emitted[b].ev.State = <<"collect ", "2">>
       /\ emitted[b].ev.Error = WriteErr
       /\ Cardinality(WritesOf(2)) = 1

\* C21: once the context has ended, no worker that waits in the select
\* goes on to run a task: no step taken with the context ended moves a
\* worker from the select to Run.
C21_NoRunAfterCancel ==
  [][ctxErr # NIL =>
       \A w \in Workers : ~(wpc[w] = "select" /\ wpc'[w] = "run")]_vars

\* No worker is in Run or in a delivery.
WorkersAtRest == \A w \in Workers : wpc[w] \in {"idle", "done"}

\* C22: a call that has returned nil has received and run every task of
\* its list exactly once, has no worker left at work and has called
\* Archive.Close once; and from the moment Archive.Close is called every
\* task has been run, with its write if it had one, and no worker is at
\* work, so no Archive.Write comes after it.
C22_NilReturnHidesNoTask ==
  /\ (Returned /\ result = NIL) =>
       /\ \A k \in Tasks : runs[k].recv = 1 /\ runs[k].n = 1 /\ WasRun(k)
       /\ WorkersAtRest
       /\ Len(closes) = 1
  /\ closes # <<>> =>
       /\ WorkersAtRest
       /\ \A k \in Tasks :
            /\ runs[k].n = 1
            /\ GavePayload(k) => WritesOf(k) # {}

C22_Witness ==
  /\ Returned /\ result = NIL
  /\ NumTasks = 2 /\ spawned = 2
  /\ runs[1].ret = BodyErr /\ runs[1].n = 1
  /\ runs[2].ret = NIL /\ runs[2].n = 1 /\ GavePayload(2)
  /\ Len(writes) = 1 /\ writes[1].task = 2
  /\ closes = <<NIL>>

\* The source labels of the tasks of the list.
Labels == {SourceOf(k) : k \in Tasks}

\* C23: no worker is started before the totals are computed, and from
\* then on, in every state of the call, the totals map has exactly the
\* labels of the list, each with the number of tasks of the list that carry
\* it; every Total a worker has put into a progress value is that number.
C23_TotalsFixed ==
  /\ pc \in {"build", "call"} => (spawned = 0 /\ StartedWorkers = {})
  /\ pc \notin {"build", "call", "panic"} =>
       /\ DOMAIN totals = Labels
       /\ \A l \in Labels :
            totals[l] = Cardinality({k \in Tasks : SourceOf(k) = l})
       /\ \A a \in 1..Len(emitted) :
            emitted[a].ev.Total = totals[emitted[a].ev.Source]

C23_Witness ==
  /\ Returned /\ NumTasks = 2
  /\ composed # <<>>
  /\ Labels = {Cluster, G1}
  /\ totals[Cluster] = 1 /\ totals[G1] = 1
  /\ Len(emitted) = 2

\* A With* call is being made: its record is added to those made so far.
ComposeStep == Len(composed') = Len(composed) + 1

\* C24, as stated: a With* call leaves every collector that existed before
\* the call, those of its argument included, with the destination path,
\* the source label and the collect function it had.
C24_InputUntouched_Original ==
  [][ComposeStep => \A c \in DOMAIN heap : heap'[c] = heap[c]]_vars

\* C24, amended: a With* call creates no collector and returns the list
\* it was given; the collectors of that list are rewritten where they are
\* (WithFolder and WithNode put their argument and a separator in front of
\* the destination path, WithNode and WithSource make their argument the
\* source label, WithNode wraps the collect function), and every collector
\* outside the list is left as it was.
C24_RewrittenInPlace ==
  [][ComposeStep =>
       LET r == composed'[Len(composed')] IN
       /\ cols' = cols
       /\ DOMAIN heap' = DOMAIN heap
       /\ r.batch # {} /\ r.batch \subseteq DOMAIN heap
       /\ \A c \in DOMAIN heap \ r.batch : heap'[c] = heap[c]
       /\ \A c \in r.batch :
            /\ heap'[c].destinationPath =
                 IF r.op = "WithSource" THEN heap[c].destinationPath
                 ELSE r.arg \o <<Sep>> \o heap[c].destinationPath
            /\ heap'[c].source =
                 IF r.op = "WithFolder" THEN heap[c].source ELSE r.arg
            /\ heap'[c].collect =
                 IF r.op = "WithNode" THEN Append(heap[c].collect, r.arg)
                 ELSE heap[c].collect]_vars

C24_Witness ==
  /\ pc = "build" /\ NumTasks = 2
  /\ composed = <<[op |-> "WithFolder", batch |-> {1}, arg |-> D1]>>
  /\ made[1] = P1
  /\ heap[1].destinationPath = D1 \o <<Sep>> \o P1
  /\ heap[2].destinationPath = P1

====
